---- MODULE Spec2Model ----
(***************************************************************************)
(* Model of examples/nrf52840/build.rs: the hex decoding of LoRaWAN keys,  *)
(* the generation of lorawan_keys.rs and the linker set-up.                *)
(*                                                                         *)
(* A Rust string is a sequence of characters, each written as a TLA+       *)
(* string of its own.  str::len counts UTF-8 bytes, so every character     *)
(* has a width; the one non-ASCII character of the model is two bytes wide.*)
(* Option<T> is a record: None is [some |-> FALSE], Some(x) is             *)
(* [some |-> TRUE, val |-> x].                                             *)
(***************************************************************************)
EXTENDS Integers, Sequences, FiniteSets, TLC

VARIABLES
    \* one call of a function of the script
    call,       \* the function called and its arguments
    outcome,    \* what the call did: nothing yet, a return value or a panic
    \* one run of main after another
    pc,         \* position of the current run of main
    env,        \* the values option_env! gave the script for the three variables
    linkToRam,  \* cfg!(feature = "link-to-ram")
    slots,      \* the strings parse_lorawan_id has returned so far in this run
    panicMsg,   \* message of the panic that ended the run, <<>> when none
    outDir,     \* the files of OUT_DIR: name -> Some(content), None when missing
    created,    \* names of the files this run has created, in order
    stdout,     \* the lines this run has printed
    prevKeys    \* what lorawan_keys.rs held when this run started

vars == <<call, outcome, pc, env, linkToRam, slots, panicMsg, outDir, created,
          stdout, prevKeys>>

buildVars == <<pc, env, linkToRam, slots, panicMsg, outDir, created, stdout, prevKeys>>

callVars == <<call, outcome>>

----------------------------------------------------------------------------
\* Bounds of the inputs of the single calls.
MaxChars == 4

MaxKeyLen == 2

----------------------------------------------------------------------------
\* Option<T>
None == [some |-> FALSE]

Some(x) == [some |-> TRUE, val |-> x]

\* Characters.  NonAscii stands for U+00E9, two bytes in UTF-8.
NonAscii == "U+00E9"

Alphabet == {"0", "a", "F", "z", "+", "-", NonAscii}

Width(c) == IF c = NonAscii THEN 2 ELSE 1

\* str::len: the length in bytes
RECURSIVE str_len(_)
str_len(s) == IF s = <<>> THEN 0 ELSE Width(Head(s)) + str_len(Tail(s))

\* The number of characters before byte offset b when b is a character
\* boundary of s (str::is_char_boundary), -1 when it is not.  The scan has
\* passed k characters, off bytes.
RECURSIVE char_index(_, _, _, _)
char_index(s, k, off, b) ==
    IF off = b THEN k
    ELSE IF off > b \/ k = Len(s) THEN -1
    ELSE char_index(s, k + 1, off + Width(s[k + 1]), b)

\* str::get(i..j): the substring, or None when i or j is inside a character
\* or past the end
str_get(s, i, j) ==
    LET from == char_index(s, 0, 0, i)
        to   == char_index(s, 0, 0, j)
    IN  IF i <= j /\ from >= 0 /\ to >= 0 THEN Some(SubSeq(s, from + 1, to)) ELSE None

\* char::to_digit(16): the digit's value, or -1 for None
LowerHex == <<"0", "1", "2", "3", "4", "5", "6", "7", "8", "9", "a", "b", "c", "d", "e", "f">>

UpperHex == <<"0", "1", "2", "3", "4", "5", "6", "7", "8", "9", "A", "B", "C", "D", "E", "F">>

to_digit(c) ==
    IF \E i \in 1..16 : LowerHex[i] = c
    THEN (CHOOSE i \in 1..16 : LowerHex[i] = c) - 1
    ELSE IF \E i \in 1..16 : UpperHex[i] = c
         THEN (CHOOSE i \in 1..16 : UpperHex[i] = c) - 1
         ELSE -1

\* The digit loop of u8::from_str_radix: None on an invalid digit or on a
\* value that does not fit in a u8.
RECURSIVE digits_value(_, _)
digits_value(digits, acc) ==
    IF digits = <<>> THEN Some(acc)
    ELSE IF to_digit(Head(digits)) < 0 THEN None
    ELSE IF acc * 16 + to_digit(Head(digits)) > 255 THEN None
    ELSE digits_value(Tail(digits), acc * 16 + to_digit(Head(digits)))

\* u8::from_str_radix(src, 16).ok(): an empty string and a lone sign are
\* errors, one leading "+" is skipped, and "-" is no digit of an unsigned type.
from_str_radix(src) ==
    IF src = <<>> THEN None
    ELSE IF Len(src) = 1 /\ src[1] \in {"+", "-"} THEN None
    ELSE IF src[1] = "+" THEN digits_value(Tail(src), 0)
    ELSE digits_value(src, 0)

\* A variant that takes one character for a byte.
chunk_one_char(s, i) ==
    LET sub == str_get(s, i, i + 1)
    IN  IF sub.some THEN from_str_radix(sub.val) ELSE None

\* s.get(i..i + 2).and_then(|sub| u8::from_str_radix(sub, 16).ok())
chunk(s, i) ==
    LET sub == str_get(s, i, i + 2)
    IN  IF sub.some THEN from_str_radix(sub.val) ELSE None

\* (0..s.len()).step_by(2).map(..).collect::<Option<Vec<u8>>>(): the bytes in
\* input order, None as soon as one chunk is None
RECURSIVE collect(_, _, _, _)
collect(s, n, i, acc) ==
    IF i >= n THEN Some(acc)
    ELSE LET b == chunk(s, i)
         IN  IF ~b.some THEN None ELSE collect(s, n, i + 2, Append(acc, b.val))

\* hex_to_bytes(s): Option<Vec<u8>>
hex_to_bytes(s) ==
    IF str_len(s) % 2 = 0 THEN collect(s, str_len(s), 0, <<>>) ELSE None

----------------------------------------------------------------------------
\* Formatting.

DecDigits == <<"0", "1", "2", "3", "4", "5", "6", "7", "8", "9">>

\* Display and Debug of an unsigned integer: decimal, no padding
RECURSIVE fmt_int(_)
fmt_int(n) ==
    IF n < 10 THEN <<DecDigits[n + 1]>>
    ELSE Append(fmt_int(n \div 10), DecDigits[(n % 10) + 1])

\* Debug of Vec<u8>: "[b0, b1, ...]"
RECURSIVE fmt_items(_)
fmt_items(v) ==
    IF v = <<>> THEN <<>>
    ELSE IF Len(v) = 1 THEN fmt_int(v[1])
    ELSE fmt_int(v[1]) \o <<",", " ">> \o fmt_items(Tail(v))

fmt_vec(v) == <<"[">> \o fmt_items(v) \o <<"]">>

\* format!("Some({:?})", v)
fmt_some(v) == <<"S", "o", "m", "e", "(">> \o fmt_vec(v) \o <<")">>

\* The two panics of parse_lorawan_id.  A message is the sequence of the
\* pieces of its format string and of its formatted arguments.
LengthPanic(var, l, len) ==
    [kind |-> "panic", line |-> 36,
     msg  |-> <<"Environment variable ", var, " has invalid length: ">>
              \o fmt_int(l) \o <<", expecting: ">> \o fmt_int(2 * len)]

ParsePanic(var, len) ==
    [kind |-> "panic", line |-> 46,
     msg  |-> <<"Unable to parse ", var,
                " from environment, make sure it's a valid hex string with length ">>
              \o fmt_int(2 * len)]

Return(v) == [kind |-> "return", value |-> v]

\* A variant that does not let the empty string through.
parse_lorawan_id_noempty(val, var, len) ==
    IF ~val.some THEN Return(None)
    ELSE LET l == str_len(val.val)
             v == hex_to_bytes(val.val)
         IN  IF l % 2 = 1 \/ l # 2 * len THEN LengthPanic(var, l, len)
             ELSE IF v.some THEN Return(Some(fmt_some(v.val)))
             ELSE ParsePanic(var, len)

\* A variant that does not check the length.
parse_lorawan_id_nolength(val, var, len) ==
    IF ~val.some THEN Return(None)
    ELSE LET l == str_len(val.val)
             v == hex_to_bytes(val.val)
         IN  IF l = 0 THEN Return(None)
             ELSE IF v.some THEN Return(Some(fmt_some(v.val)))
             ELSE ParsePanic(var, len)

\* parse_lorawan_id(val, var, len): Return(Option<String>) or a panic
parse_lorawan_id(val, var, len) ==
    IF ~val.some THEN Return(None)
    ELSE LET l == str_len(val.val)
             v == hex_to_bytes(val.val)
         IN  IF l = 0 THEN Return(None)
             ELSE IF l % 2 = 1 \/ l # 2 * len THEN LengthPanic(var, l, len)
             ELSE IF v.some THEN Return(Some(fmt_some(v.val)))
             ELSE ParsePanic(var, len)

----------------------------------------------------------------------------
\* Single calls: the arguments are drawn in the initial state, the action
\* applies the function.

Strings == UNION {[1..k -> Alphabet] : k \in 0..MaxChars}

VarNames == {"LORA_DEVEUI", "X"}

Pending == [kind |-> "pending"]

NoCall == [fn |-> "none"]

Calls ==
    {[fn |-> "hex_to_bytes", s |-> s] : s \in Strings}
    \cup {[fn |-> "parse_lorawan_id", val |-> v, var |-> var, len |-> len] :
            v \in {None} \cup {Some(s) : s \in Strings},
            var \in VarNames, len \in 1..MaxKeyLen}

Call_hex_to_bytes ==
    /\ call.fn = "hex_to_bytes"
    /\ outcome = Pending
    /\ outcome' = Return(hex_to_bytes(call.s))
    /\ UNCHANGED <<call, buildVars>>

Call_parse_lorawan_id ==
    /\ call.fn = "parse_lorawan_id"
    /\ outcome = Pending
    /\ outcome' = parse_lorawan_id(call.val, call.var, call.len)
    /\ UNCHANGED <<call, buildVars>>

----------------------------------------------------------------------------
\* main

SlotVar == <<"LORA_DEVEUI", "LORA_APPEUI", "LORA_APPKEY">>

SlotName == <<"DEVEUI", "APPEUI", "APPKEY">>

SlotLen == <<8, 8, 16>>

\* the array size written in the type of each constant
SlotSize == <<"8", "8", "16">>

KeysFile == "lorawan_keys.rs"

FileNames == {KeysFile, "memory.x", "link_ram.x"}

\* The values the variables are given.  Each is unset or empty, or holds a
\* well-formed key, a key of signed digits, a key that is too short, or a key
\* with a letter that is no digit.
Counting(len) == [i \in 1..2 * len |-> LowerHex[(((i - 1) \div 2) % 16) + 1]]

Values ==
    <<{None, Some(<<>>), Some(Counting(8)), Some(<<"0", "0", "1", "1", "2", "2">>)},
      {None, Some([i \in 1..16 |-> UpperHex[17 - i]]),
       Some([i \in 1..16 |-> IF i % 2 = 1 THEN "+" ELSE "F"]),
       Some([i \in 1..16 |-> IF i > 14 THEN "z" ELSE Counting(8)[i]])},
      {None, Some([i \in 1..32 |-> "A"]), Some([i \in 1..31 |-> "A"])}>>

Envs == {<<a, b, c>> : a \in Values[1], b \in Values[2], c \in Values[3]}

\* .unwrap_or("None".to_string())
unwrap_or_none(o) == IF o.some THEN o.val ELSE <<"N", "o", "n", "e">>

\* One declaration of the format string, lines 71-73.
Decl(k, init) ==
    <<"const ", SlotName[k], ": Option<[u8; ", SlotSize[k], "]> = ">> \o init \o <<";\n">>

\* A variant that gives the second constant the first argument.
format_keys_swapped(r) ==
    <<"// Generated by build.rs\n">> \o Decl(1, r[1]) \o Decl(2, r[1]) \o Decl(3, r[3])

\* The text of the format_args! of lines 68-77 for the three strings r
format_keys(r) ==
    <<"// Generated by build.rs\n">> \o Decl(1, r[1]) \o Decl(2, r[2]) \o Decl(3, r[3])

\* A variant that opens the file without truncating it.
file_create_keep(old) == IF old.some THEN old ELSE Some(<<>>)

\* File::create: the file exists and is empty, whatever it held
file_create(old) == Some(<<>>)

MemoryX == <<"include_bytes!(memory.x)">>

LinkRamX == <<"include_bytes!(../link_ram_cortex_m.x)">>

Directive(k, v) == [key |-> k, value |-> v]

\* the println! of lines 98-101
flash_directives ==
    <<Directive("cargo:rustc-link-search", "OUT_DIR"),
      Directive("cargo:rustc-link-arg-bins", "-Tlink.x"),
      Directive("cargo:rerun-if-changed", "link.x")>>

\* the println! of lines 89-92
ram_directives ==
    <<Directive("cargo:rustc-link-search", "OUT_DIR"),
      Directive("cargo:rustc-link-arg-bins", "-Tlink_ram.x"),
      Directive("cargo:rerun-if-changed", "link_ram.x")>>

\* the println! of lines 104-105
tail_directives ==
    <<Directive("cargo:rustc-link-arg-bins", "--nmagic"),
      Directive("cargo:rustc-link-arg-bins", "-Tdefmt.x")>>

\* Lines 57-62: a run starts with the values its build was given and creates
\* lorawan_keys.rs before any variable is looked at.
CreateKeys ==
    /\ pc \in {"idle", "done", "panicked"}
    /\ \E e \in Envs, ram \in BOOLEAN :
         /\ env' = e
         /\ linkToRam' = ram
    /\ prevKeys' = outDir[KeysFile]
    /\ outDir' = [outDir EXCEPT ![KeysFile] = file_create(outDir[KeysFile])]
    /\ created' = <<KeysFile>>
    /\ stdout' = <<>>
    /\ slots' = <<>>
    /\ panicMsg' = <<>>
    /\ pc' = "parse"
    /\ UNCHANGED callVars

\* A variant that goes on after a panic, with the absent marker.
Parse_and_continue ==
    /\ pc = "parse"
    /\ Len(slots) < 3
    /\ LET k == Len(slots) + 1
           r == parse_lorawan_id(env[k], SlotVar[k], SlotLen[k])
       IN  slots' = Append(slots, unwrap_or_none(IF r.kind = "panic" THEN None ELSE r.value))
    /\ UNCHANGED <<pc, panicMsg, env, linkToRam, outDir, created, stdout, prevKeys, callVars>>

\* Lines 74-76: the arguments of format_args! are evaluated in order.  A panic
\* unwinds main: the BufWriter is dropped with nothing in its buffer.
Parse ==
    /\ pc = "parse"
    /\ Len(slots) < 3
    /\ LET k == Len(slots) + 1
           r == parse_lorawan_id(env[k], SlotVar[k], SlotLen[k])
       IN  IF r.kind = "panic"
           THEN /\ pc' = "panicked"
                /\ panicMsg' = r.msg
                /\ UNCHANGED slots
           ELSE /\ slots' = Append(slots, unwrap_or_none(r.value))
                /\ UNCHANGED <<pc, panicMsg>>
    /\ UNCHANGED <<env, linkToRam, outDir, created, stdout, prevKeys, callVars>>

\* Lines 65-80: the text is written and the BufWriter flushed by its drop.
WriteKeys ==
    /\ pc = "parse"
    /\ Len(slots) = 3
    /\ outDir' = [outDir EXCEPT ![KeysFile] = Some(outDir[KeysFile].val \o format_keys(slots))]
    /\ pc' = "link"
    /\ UNCHANGED <<env, linkToRam, slots, panicMsg, created, stdout, prevKeys, callVars>>

\* Lines 84-92
LinkRam ==
    /\ pc = "link"
    /\ linkToRam
    /\ outDir' = [outDir EXCEPT !["link_ram.x"] =
                     Some(file_create(outDir["link_ram.x"]).val \o LinkRamX)]
    /\ created' = Append(created, "link_ram.x")
    /\ stdout' = stdout \o ram_directives
    /\ pc' = "tail"
    /\ UNCHANGED <<env, linkToRam, slots, panicMsg, prevKeys, callVars>>

\* Lines 93-102
LinkFlash ==
    /\ pc = "link"
    /\ ~linkToRam
    /\ outDir' = [outDir EXCEPT !["memory.x"] =
                     Some(file_create(outDir["memory.x"]).val \o MemoryX)]
    /\ created' = Append(created, "memory.x")
    /\ stdout' = stdout \o flash_directives
    /\ pc' = "tail"
    /\ UNCHANGED <<env, linkToRam, slots, panicMsg, prevKeys, callVars>>

\* Lines 104-106
Finish ==
    /\ pc = "tail"
    /\ stdout' = stdout \o tail_directives
    /\ pc' = "done"
    /\ UNCHANGED <<env, linkToRam, slots, panicMsg, outDir, created, prevKeys, callVars>>

----------------------------------------------------------------------------
InitBuild ==
    /\ pc = "idle"
    /\ env = <<None, None, None>>
    /\ linkToRam = FALSE
    /\ slots = <<>>
    /\ panicMsg = <<>>
    /\ outDir = [f \in FileNames |-> None]
    /\ created = <<>>
    /\ stdout = <<>>
    /\ prevKeys = None

Init ==
    /\ call = NoCall
    /\ outcome = Pending
    /\ InitBuild

Next == CreateKeys \/ Parse \/ WriteKeys \/ LinkRam \/ LinkFlash \/ Finish

Spec == Init /\ [][Next]_vars

InitCall ==
    /\ call \in Calls
    /\ outcome = Pending
    /\ InitBuild

NextCall == Call_hex_to_bytes \/ Call_parse_lorawan_id

SpecCall == InitCall /\ [][NextCall]_vars

----------------------------------------------------------------------------
\* Reading back what the script wrote: hexadecimal digits, decimal numbers,
\* the array literals and the declarations of the generated file.

HexDigitValue ==
    ("0" :> 0) @@ ("1" :> 1) @@ ("2" :> 2) @@ ("3" :> 3) @@ ("4" :> 4) @@ ("5" :> 5)
    @@ ("6" :> 6) @@ ("7" :> 7) @@ ("8" :> 8) @@ ("9" :> 9)
    @@ ("a" :> 10) @@ ("b" :> 11) @@ ("c" :> 12) @@ ("d" :> 13) @@ ("e" :> 14) @@ ("f" :> 15)
    @@ ("A" :> 10) @@ ("B" :> 11) @@ ("C" :> 12) @@ ("D" :> 13) @@ ("E" :> 14) @@ ("F" :> 15)

IsHexDigit(c) == c \in DOMAIN HexDigitValue

AllHex(s) == \A i \in 1..Len(s) : IsHexDigit(s[i])

HasNonHex(s) == \E i \in 1..Len(s) : ~IsHexDigit(s[i])

\* the value of the pair of hexadecimal digits c1 c2
PairValue(c1, c2) == 16 * HexDigitValue[c1] + HexDigitValue[c2]

ToLower(c) ==
    CASE c = "A" -> "a" [] c = "B" -> "b" [] c = "C" -> "c"
      [] c = "D" -> "d" [] c = "E" -> "e" [] c = "F" -> "f"
      [] OTHER -> c

\* the bytes v written pairwise as two lower-case hexadecimal digits
EncodeLower(v) ==
    LET digit == <<"0", "1", "2", "3", "4", "5", "6", "7", "8", "9", "a", "b", "c", "d", "e", "f">>
    IN  [i \in 1..2 * Len(v) |->
            IF i % 2 = 1 THEN digit[(v[(i + 1) \div 2] \div 16) + 1]
            ELSE digit[(v[i \div 2] % 16) + 1]]

IsDecDigit(c) == c \in {"0", "1", "2", "3", "4", "5", "6", "7", "8", "9"}

RECURSIVE ReadDecimal(_)
ReadDecimal(ds) ==
    IF ds = <<>> THEN 0
    ELSE 10 * ReadDecimal(SubSeq(ds, 1, Len(ds) - 1)) + HexDigitValue[ds[Len(ds)]]

\* the maximal runs of decimal digits of a text, as <<first, last>>
DigitRuns(text) ==
    {<<i, CHOOSE j \in i..Len(text) :
              /\ \A k \in i..j : IsDecDigit(text[k])
              /\ j = Len(text) \/ ~IsDecDigit(text[j + 1])>> :
        i \in {i \in 1..Len(text) :
                  IsDecDigit(text[i]) /\ (i = 1 \/ ~IsDecDigit(text[i - 1]))}}

\* the numbers a text shows
NumbersIn(text) == {ReadDecimal(SubSeq(text, r[1], r[2])) : r \in DigitRuns(text)}

Pieces(text) == {text[i] : i \in 1..Len(text)}

\* the items of an array literal "[n, n, ...]", in order
ReadArray(t) ==
    LET R == DigitRuns(t)
        nth(n) == CHOOSE r \in R : Cardinality({q \in R : q[1] < r[1]}) = n - 1
    IN  [n \in 1..Cardinality(R) |-> ReadDecimal(SubSeq(t, nth(n)[1], nth(n)[2]))]

Unreadable == [some |-> FALSE, unreadable |-> TRUE]

\* the Option<[u8; N]> an initialiser denotes
ReadInit(t) ==
    IF t = <<"N", "o", "n", "e">> THEN None
    ELSE IF /\ Len(t) >= 8
            /\ SubSeq(t, 1, 6) = <<"S", "o", "m", "e", "(", "[">>
            /\ SubSeq(t, Len(t) - 1, Len(t)) = <<"]", ")">>
            /\ \A i \in 7..(Len(t) - 2) : IsDecDigit(t[i]) \/ t[i] \in {",", " "}
         THEN Some(ReadArray(SubSeq(t, 7, Len(t) - 2)))
    ELSE Unreadable

DeclStarts(text) == {p \in 1..Len(text) : text[p] = "const "}

NumDecls(text) == Cardinality(DeclStarts(text))

DeclAt(text, p) ==
    LET q == CHOOSE q \in p..Len(text) :
                 text[q] = ";\n" /\ \A r \in p..(q - 1) : text[r] # ";\n"
    IN  [name |-> text[p + 1],
         optionalBytes |-> text[p + 2] = ": Option<[u8; " /\ text[p + 4] = "]> = ",
         size |-> text[p + 3],
         init |-> ReadInit(SubSeq(text, p + 5, q - 1))]

\* the declarations of a generated file, in the order of the file
ReadDecls(text) ==
    LET S == DeclStarts(text)
    IN  [n \in 1..Cardinality(S) |->
            DeclAt(text, CHOOSE p \in S : Cardinality({r \in S : r < p}) = n - 1)]

\* what parse_lorawan_id does with the value of slot k in this run
Resolved(k) == parse_lorawan_id(env[k], SlotVar[k], SlotLen[k])

Fails(k) == Resolved(k).kind = "panic"

Returned == outcome # Pending

----------------------------------------------------------------------------
\* C1: hex_to_bytes succeeds exactly when its argument has even length and
\* consists of hexadecimal digits only; every other string fails.
C1_SucceedsIffEvenHex ==
    (call.fn = "hex_to_bytes" /\ Returned) =>
        (outcome.value.some <=> (str_len(call.s) % 2 = 0 /\ AllHex(call.s)))

\* C2: a present, non-empty value whose length is not 2 * len ends in the
\* panic of line 36, whose message shows the variable, the actual length and
\* 2 * len, whatever characters the value holds.
C2_LengthMismatch ==
    (/\ call.fn = "parse_lorawan_id" /\ Returned
     /\ call.val.some
     /\ str_len(call.val.val) # 0
     /\ str_len(call.val.val) # 2 * call.len) =>
        /\ outcome.kind = "panic"
        /\ outcome.line = 36
        /\ call.var \in Pieces(outcome.msg)
        /\ str_len(call.val.val) \in NumbersIn(outcome.msg)
        /\ 2 * call.len \in NumbersIn(outcome.msg)

C2_Witness ==
    /\ call.fn = "parse_lorawan_id"
    /\ call.val = Some(<<"z", "+", "-", "0">>)
    /\ call.len = 1
    /\ call.var = "LORA_DEVEUI"
    /\ outcome.kind = "panic"
    /\ outcome.line = 36
    /\ NumbersIn(outcome.msg) = {4, 2}

\* C3: a value of length 2 * len that holds a character that is no
\* hexadecimal digit never comes back present: it ends in the panic of line
\* 46, whose message names the variable and 2 * len.
C3_MalformedHex ==
    (/\ call.fn = "parse_lorawan_id" /\ Returned
     /\ call.val.some
     /\ str_len(call.val.val) = 2 * call.len
     /\ HasNonHex(call.val.val)) =>
        /\ outcome.kind = "panic"
        /\ outcome.line = 46
        /\ call.var \in Pieces(outcome.msg)
        /\ 2 * call.len \in NumbersIn(outcome.msg)

\* C4: a present result holds exactly len bytes, and byte i is the value of
\* the pair of hexadecimal digits at characters 2i and 2i + 1 of the value.
C4_PresentBytes ==
    (/\ call.fn = "parse_lorawan_id" /\ Returned
     /\ outcome.kind = "return"
     /\ outcome.value.some) =>
        LET b == ReadInit(outcome.value.val)
            s == call.val.val
        IN  /\ b.some
            /\ Len(b.val) = call.len
            /\ Len(s) = 2 * call.len
            /\ \A i \in 1..call.len :
                  /\ IsHexDigit(s[2 * i - 1])
                  /\ IsHexDigit(s[2 * i])
                  /\ b.val[i] = PairValue(s[2 * i - 1], s[2 * i])

\* C5: an absent value and the empty string come back absent, with no panic.
C5_AbsentOrEmpty ==
    (/\ call.fn = "parse_lorawan_id" /\ Returned
     /\ (~call.val.some \/ str_len(call.val.val) = 0)) =>
        outcome = Return(None)

C5_Witness ==
    /\ call.fn = "parse_lorawan_id"
    /\ call.val = Some(<<>>)
    /\ call.len = 2
    /\ outcome = Return(None)

\* C8: for an even-length string of hexadecimal digits hex_to_bytes yields
\* half as many bytes as the string has characters, and the bytes written
\* pairwise in lower-case hexadecimal are the string in lower case.
C8_RoundTrip ==
    (/\ call.fn = "hex_to_bytes" /\ Returned
     /\ str_len(call.s) % 2 = 0
     /\ AllHex(call.s)) =>
        /\ outcome.value.some
        /\ 2 * Len(outcome.value.val) = Len(call.s)
        /\ EncodeLower(outcome.value.val) = [i \in 1..Len(call.s) |-> ToLower(call.s[i])]

C8_Witness ==
    /\ call.fn = "hex_to_bytes"
    /\ call.s = <<"a", "F", "0", "a">>
    /\ outcome = Return(Some(<<175, 10>>))

----------------------------------------------------------------------------
\* C6: when the validation of a slot fails the run ends in a panic and
\* nothing is half done: lorawan_keys.rs holds no declaration, at no time
\* does it hold declarations of some slots only or of values that do not
\* validate, and the run creates no linker script and prints nothing.
C6_NoPartialSuccess ==
    LET failed == \E k \in 1..3 : Fails(k)
        decls  == IF outDir[KeysFile].some THEN NumDecls(outDir[KeysFile].val) ELSE 0
    IN  /\ decls \in {0, 3}
        /\ decls = 3 => ~failed
        /\ failed => pc \in {"parse", "panicked"}
        /\ pc = "panicked" =>
               /\ failed
               /\ decls = 0
               /\ created = <<KeysFile>>
               /\ stdout = <<>>

C6_Witness ==
    /\ pc = "panicked"
    /\ Len(slots) = 2
    /\ Fails(3)
    /\ prevKeys.some
    /\ NumDecls(prevKeys.val) = 3
    /\ outDir["memory.x"].some

\* C7: after a run that succeeded lorawan_keys.rs declares DEVEUI, APPEUI
\* and APPKEY, in this order, as Option<[u8; 8]>, Option<[u8; 8]> and
\* Option<[u8; 16]>, each initialised from the value of its own variable:
\* None when the slot resolved to absent, else the array of its bytes.
C7_Declarations ==
    pc = "done" =>
        LET d == ReadDecls(outDir[KeysFile].val)
        IN  /\ Len(d) = 3
            /\ <<d[1].name, d[2].name, d[3].name>> = <<"DEVEUI", "APPEUI", "APPKEY">>
            /\ <<d[1].size, d[2].size, d[3].size>> = <<"8", "8", "16">>
            /\ \A k \in 1..3 :
                  /\ d[k].optionalBytes
                  /\ IF Resolved(k).value.some
                     THEN d[k].init = Some(hex_to_bytes(env[k].val).val)
                     ELSE d[k].init = None

C7_Witness ==
    /\ pc = "done"
    /\ env = <<None, None, Some([i \in 1..32 |-> "A"])>>
    /\ LET d == ReadDecls(outDir[KeysFile].val)
       IN  /\ d[1].init = None
           /\ d[2].init = None
           /\ d[3].init = Some([i \in 1..16 |-> 170])

\* C9: without link-to-ram a run that succeeded has copied memory.x into
\* OUT_DIR, put OUT_DIR on the linker search path and asked for a re-run
\* when memory.x changes.
C9_RerunOnMemoryX ==
    (pc = "done" /\ ~linkToRam) =>
        /\ outDir["memory.x"] = Some(MemoryX)
        /\ Directive("cargo:rustc-link-search", "OUT_DIR") \in Pieces(stdout)
        /\ Directive("cargo:rerun-if-changed", "memory.x") \in Pieces(stdout)

\* C10: lorawan_keys.rs never carries declarations over from an earlier
\* run: after a run that succeeded it is the rendering of this run's three
\* results, after a run that failed it holds no declaration.
C10_Regenerated ==
    /\ pc = "done" =>
           outDir[KeysFile] =
               Some(format_keys([k \in 1..3 |-> unwrap_or_none(Resolved(k).value)]))
    /\ pc = "panicked" => NumDecls(outDir[KeysFile].val) = 0

C10_Witness ==
    /\ pc = "done"
    /\ prevKeys.some
    /\ NumDecls(prevKeys.val) = 3
    /\ prevKeys # outDir[KeysFile]
    /\ \E k \in 1..3 : ReadDecls(prevKeys.val)[k].init # ReadDecls(outDir[KeysFile].val)[k].init

====
